---- MODULE Spec2Model ----
(***************************************************************************)
(* GetLogFile cache action of the ui_backend_service                       *)
(* (services/ui_backend_service/data/cache/get_log_file_action.py):        *)
(* key derivation, staleness check, log fetch and pagination; and the     *)
(* start-up script of the migration service                                *)
(* (services/migration_service/get_virtual_env.py).                        *)
(*                                                                         *)
(* Specifications: Spec (one worker, callers of execute of both kinds),    *)
(* SpecClient (one worker, framework traffic only), SpecConc (two          *)
(* workers), SpecKeys, SpecPage and SpecFetch (format_request,             *)
(* paginated_result and get_log_content on bounded inputs), SpecBoot (the  *)
(* start-up script).                                                       *)
(*                                                                         *)
(* Encoding of Python values:                                              *)
(*   - a dict is a function whose DOMAIN is the set of keys it carries;    *)
(*   - None is the string "None" among string values (no identifier drawn  *)
(*     below equals it) and Null (-1) among integer values (epoch          *)
(*     milliseconds are never negative);                                   *)
(*   - a call that may raise returns [val |-> v] or [err |-> e, ...];      *)
(*   - str is a TLC string, built with \o as the code's format() does.     *)
(***************************************************************************)
EXTENDS Integers, Sequences, FiniteSets, TLC

VARIABLES
    kreq,   \* key derivation: the request handed to format_request
    kres,   \* key derivation: <<>> until applied, then <<what it returned>>
    pin,    \* paginator: the arguments of paginated_result
    pout,   \* paginator: <<>> until applied, then <<what it returned>>
    log,    \* metadata client: the stdout (timestamp, line) records of the task
    store,  \* cache store: key -> serialized value
    calls,  \* per worker: the execute call in progress and what it has done
    lfetch, \* log fetch: the task handle and logtype, and <<what get_log_content returned>>
    boot    \* migration service start-up script: its counters and position

vars == <<kreq, kres, pin, pout, log, store, calls, lfetch, boot>>
pureVars == <<kreq, kres, pin, pout, lfetch, boot>>

STDOUT == "log_location_stdout"
STDERR == "log_location_stderr"

None == "None"
Null == 0 - 1

EmptyDict == [k \in {} |-> 0]

Ok(v) == [val |-> v]
Raise(e, what) == [err |-> e, what |-> what]
Raised(r) == "err" \in DOMAIN r

(* dict.get(key, default) *)
Get(d, key, default) == IF key \in DOMAIN d THEN d[key] ELSE default

(* Python truthiness of a str-or-None value, as `or` tests it. *)
Truthy(v) == v # None /\ v # ""

(* str(v) as format() renders an int-or-None value. *)
StrInt(n) == IF n = Null THEN "None" ELSE ToString(n)

(* int(v) of an int-or-None value: TypeError on None *)
PyInt(v) == IF v = Null THEN Raise("TypeError", "int") ELSE Ok(v)
StrBool(b) == IF b THEN "True" ELSE "False"

(* ------------------------------------------------------------------ *)
(* Key derivation                                                     *)
(* ------------------------------------------------------------------ *)

(* task.get(preferred) or task[fallback]: the rendered text, or the KeyError
   of the fallback subscript, which is evaluated only when the preferred
   value is missing or falsy. The fallback is an integer column. *)
PreferOrWrong(task, preferred, fallback) ==
    IF fallback \in DOMAIN task THEN Ok(StrInt(task[fallback]))
    ELSE IF preferred \in DOMAIN task /\ Truthy(task[preferred]) THEN Ok(task[preferred])
    ELSE Raise("KeyError", fallback)

PreferOr(task, preferred, fallback) ==
    IF preferred \in DOMAIN task /\ Truthy(task[preferred]) THEN Ok(task[preferred])
    ELSE IF fallback \in DOMAIN task THEN Ok(StrInt(task[fallback]))
    ELSE Raise("KeyError", fallback)

(* task.get(key) in place of task[key]: a missing key renders as None *)
SubscriptOrNone(task, key) ==
    IF key \in DOMAIN task THEN Ok(task[key]) ELSE Ok(None)

Subscript(task, key) ==
    IF key \in DOMAIN task THEN Ok(task[key]) ELSE Raise("KeyError", key)

pathspec_for_task(task) ==
    LET flow == Subscript(task, "flow_id")
        run  == PreferOr(task, "run_id", "run_number")
        step == Subscript(task, "step_name")
        tsk  == PreferOr(task, "task_name", "task_id")
    IN  IF Raised(flow) THEN flow
        ELSE IF Raised(run) THEN run
        ELSE IF Raised(step) THEN step
        ELSE IF Raised(tsk) THEN tsk
        ELSE Ok(flow.val \o "/" \o run.val \o "/" \o step.val \o "/" \o tsk.val)

log_cache_id(task, logtype) ==
    LET ps == pathspec_for_task(task)
    IN  IF Raised(ps) THEN ps
        ELSE Ok("log:file:" \o ps.val \o "." \o StrInt(Get(task, "attempt_id", 0))
                \o "." \o logtype)

(* hashlib.sha1(...).hexdigest(), taken as collision-free: an injective
   rendering of its argument. *)
Sha1Hex(s) == "sha1<" \o s \o ">"

(* the page left out of the digested string *)
lookup_id_nopage(task, logtype, limit, page, reverse_order, raw_log) ==
    LET file == log_cache_id(task, logtype)
    IN  IF Raised(file) THEN file
        ELSE Ok(Sha1Hex(file.val \o "_" \o StrInt(limit)
                        \o "_" \o StrBool(reverse_order) \o "_" \o StrBool(raw_log)))

lookup_id(task, logtype, limit, page, reverse_order, raw_log) ==
    LET file == log_cache_id(task, logtype)
    IN  IF Raised(file) THEN file
        ELSE Ok(Sha1Hex(file.val \o "_" \o StrInt(limit) \o "_" \o StrInt(page)
                        \o "_" \o StrBool(reverse_order) \o "_" \o StrBool(raw_log)))

log_result_id(task, logtype, limit, page, reverse_order, raw_log) ==
    LET id == lookup_id(task, logtype, limit, page, reverse_order, raw_log)
    IN  IF Raised(id) THEN id ELSE Ok("log:result:" \o id.val)

format_request(task, logtype, limit, page, reverse_order, raw_log, invalidate_cache) ==
    LET msg == [task |-> task, logtype |-> logtype, limit |-> limit, page |-> page,
                reverse_order |-> reverse_order, raw_log |-> raw_log]
        log_key == log_cache_id(task, logtype)
        result_key == log_result_id(task, logtype, limit, page, reverse_order, raw_log)
        id == lookup_id(task, logtype, limit, page, reverse_order, raw_log)
    IN  IF Raised(log_key) THEN log_key
        ELSE Ok([msg |-> msg,
                 keys |-> <<log_key.val, result_key.val>>,
                 stream_key |-> "log:stream:" \o id.val,
                 await |-> <<"log:stream:" \o id.val, result_key.val>>,
                 invalidate_cache |-> invalidate_cache])

(* ------------------------------------------------------------------ *)
(* Paginator                                                          *)
(* ------------------------------------------------------------------ *)

Max(a, b) == IF a >= b THEN a ELSE b
Min(a, b) == IF a <= b THEN a ELSE b

(* seq[::-1] *)
Reverse(seq) == [i \in 1..Len(seq) |-> seq[Len(seq) + 1 - i]]

(* seq[offset:][:limit] for offset >= 0 and limit >= 0 *)
Slice(seq, offset, limit) == SubSeq(seq, offset + 1, Min(offset + limit, Len(seq)))

(* "\n".join(line for _, line in content) *)
RECURSIVE JoinLines(_)
JoinLines(content) ==
    IF Len(content) = 0 THEN ""
    ELSE IF Len(content) = 1 THEN content[1][2]
    ELSE content[1][2] \o "\n" \o JoinLines(Tail(content))

(* the page count rounded up instead of down *)
format_loglines_ceil(content, page, limit, reverse) ==
    LET lines == [i \in 1..Len(content) |->
                    [row |-> i - 1, timestamp |-> content[i][1], line |-> content[i][2]]]
        pages == IF limit # 0 THEN Max((Len(lines) + limit - 1) \div limit, 1) ELSE 1
        ordered == IF reverse THEN Reverse(lines) ELSE lines
    IN  IF pages < page THEN <<<<>>, pages>>
        ELSE <<IF limit # 0 THEN Slice(ordered, limit * (page - 1), limit) ELSE ordered,
               pages>>

(* the slice taken before the reversal *)
format_loglines_slicefirst(content, page, limit, reverse) ==
    LET lines == [i \in 1..Len(content) |->
                    [row |-> i - 1, timestamp |-> content[i][1], line |-> content[i][2]]]
        pages == IF limit # 0 THEN Max(Len(lines) \div limit, 1) ELSE 1
        sliced == IF limit # 0 THEN Slice(lines, limit * (page - 1), limit) ELSE lines
    IN  IF pages < page THEN <<<<>>, pages>>
        ELSE <<IF reverse THEN Reverse(sliced) ELSE sliced, pages>>

format_loglines(content, page, limit, reverse) ==
    LET lines == [i \in 1..Len(content) |->
                    [row |-> i - 1, timestamp |-> content[i][1], line |-> content[i][2]]]
        _offset == limit * (page - 1)
        pages == IF limit # 0 THEN Max(Len(lines) \div limit, 1) ELSE 1
        ordered == IF reverse THEN Reverse(lines) ELSE lines
    IN  IF pages < page THEN <<<<>>, pages>>
        ELSE <<IF limit # 0 THEN Slice(ordered, _offset, limit) ELSE ordered, pages>>

(* raw mode going through the paginator's reversal *)
paginated_result_rawreversed(content, page, limit, reverse_order, output_raw) ==
    IF ~output_raw
    THEN LET r == format_loglines(content, page, limit, reverse_order)
         IN  [content |-> r[1], pages |-> r[2]]
    ELSE [content |-> JoinLines(IF reverse_order THEN Reverse(content) ELSE content),
          pages |-> 1]

paginated_result(content, page, limit, reverse_order, output_raw) ==
    IF ~output_raw
    THEN LET r == format_loglines(content, page, limit, reverse_order)
         IN  [content |-> r[1], pages |-> r[2]]
    ELSE [content |-> JoinLines(content), pages |-> 1]

(* ------------------------------------------------------------------ *)
(* execute                                                            *)
(* ------------------------------------------------------------------ *)

(* json.dumps / json.loads: the serialized text of a value, which is not the
   value; the round trip gives back the value (tuples come back as lists,
   and both are sequences here). *)
Dumps(obj) == [json |-> obj]
Loads(text) == text.json

(* sum of the byte lengths of the lines, each with its newline: what the
   metadata client reports as stdout_size / stderr_size *)
RECURSIVE ByteSize(_)
ByteSize(content) ==
    IF content = <<>> THEN 0 ELSE Len(content[1][2]) + 1 + ByteSize(Tail(content))

(* A datetime is the number of microseconds since the epoch; BadDatetime is a
   value whose timestamp() raises. *)
BadDatetime == 0 - 1

(* _datetime_to_epoch: int(datetime.timestamp() * 1000), None when that raises *)
datetime_to_epoch(datetime) ==
    IF datetime = BadDatetime THEN Null ELSE datetime \div 1000

(* blob.split("\n"): the texts between the newlines, one more than there are
   newlines *)
RECURSIVE SplitNewline(_, _, _)
SplitNewline(blob, from, at) ==
    IF at > Len(blob) THEN <<SubSeq(blob, from, Len(blob))>>
    ELSE IF SubSeq(blob, at, at) = "\n"
         THEN <<SubSeq(blob, from, at - 1)>> \o SplitNewline(blob, at + 1, at + 1)
         ELSE SplitNewline(blob, from, at + 1)

(* the metadata client's Task object of a task with modern logs: the
   (datetime, line) pairs of the two streams, their sizes, and a metadata_dict
   without log locations *)
TaskHandle(out, err) ==
    [stdout_size |-> ByteSize(out), stderr_size |-> ByteSize(err),
     stdout |-> out, stderr |-> err,
     metadata_dict |-> EmptyDict, legacy_stdout |-> "", legacy_stderr |-> ""]

(* the Task object of a task with legacy logs: metadata_dict names the log
   locations, and _load_log_legacy returns the blob stored there *)
LegacyTaskHandle(out, err) ==
    [stdout_size |-> Len(out), stderr_size |-> Len(err),
     stdout |-> <<>>, stderr |-> <<>>,
     metadata_dict |-> [log_location_stdout |-> "loc/stdout",
                        log_location_stderr |-> "loc/stderr"],
     legacy_stdout |-> out, legacy_stderr |-> err]

get_log_size(task, logtype) ==
    IF logtype = STDERR THEN task.stderr_size ELSE task.stdout_size

(* get_log_content: the legacy branch splits the blob at the newlines and
   gives every text a null timestamp; the modern branch converts the datetime
   of every pair of task.loglines *)
get_log_content(task, logtype) ==
    LET stream == IF logtype = STDERR THEN "stderr" ELSE "stdout"
        log_location == Get(task.metadata_dict, "log_location_" \o stream, None)
        blob == IF stream = "stderr" THEN task.legacy_stderr ELSE task.legacy_stdout
        loglines == IF stream = "stderr" THEN task.stderr ELSE task.stdout
        legacy == SplitNewline(blob, 1, 1)
    IN  IF Truthy(log_location)
        THEN [i \in 1..Len(legacy) |-> <<Null, legacy[i]>>]
        ELSE [i \in 1..Len(loglines) |->
                <<datetime_to_epoch(loglines[i][1]), loglines[i][2]>>]

(* lines 111-127: parameters, keys and the previously cached size *)
execute_prepare(message, existing_keys) ==
    LET task_dict == message.task
        attempt == PyInt(Get(task_dict, "attempt_id", 0))
        pathspec == pathspec_for_task(task_dict)
        log_key == log_cache_id(task_dict, message.logtype)
        result_key == log_result_id(task_dict, message.logtype, message.limit,
                                    message.page, message.reverse_order, message.raw_log)
    IN  IF Raised(attempt) THEN attempt
        ELSE IF Raised(pathspec) THEN pathspec
        ELSE Ok([attempt |-> attempt.val,
                 pathspec |-> pathspec.val,
                 log_key |-> log_key.val,
                 result_key |-> result_key.val,
                 previous_log_size |->
                    IF log_key.val \in DOMAIN existing_keys
                    THEN Get(Loads(existing_keys[log_key.val]), "log_size", Null)
                    ELSE Null])

(* stale whatever the sizes are *)
log_size_changed_always(previous_log_size, current_size) ==
    TRUE

(* stale only when nothing is cached *)
log_size_changed_onlyfirst(previous_log_size, current_size) ==
    previous_log_size = Null

(* stale only when nothing is cached or the log got shorter *)
log_size_changed_onlyshrink(previous_log_size, current_size) ==
    previous_log_size = Null \/ previous_log_size > current_size

(* line 134 *)
log_size_changed(previous_log_size, current_size) ==
    previous_log_size = Null \/ previous_log_size # current_size

(* the page computed from the previously cached content when there is one *)
execute_results_oldcontent(existing_keys, log_key, result_key, changed, current_size, content, message) ==
    LET results == IF changed
                   THEN (log_key :> Dumps([log_size |-> current_size, content |-> content]))
                   ELSE existing_keys
        paginate == changed \/ result_key \notin DOMAIN existing_keys
        source == IF log_key \in DOMAIN existing_keys THEN existing_keys ELSE results
    IN  [results |->
            IF paginate
            THEN (result_key :>
                    Dumps(paginated_result(Loads(source[log_key]).content, message.page,
                                           message.limit, message.reverse_order,
                                           message.raw_log))) @@ results
            ELSE results,
         paginated |-> paginate]

(* only the call's own two entries returned when the size is unchanged *)
execute_results_onlyown(existing_keys, log_key, result_key, changed, current_size, content, message) ==
    LET results == IF changed
                   THEN (log_key :> Dumps([log_size |-> current_size, content |-> content]))
                   ELSE [k \in DOMAIN existing_keys \cap {log_key, result_key} |->
                            existing_keys[k]]
        paginate == changed \/ result_key \notin DOMAIN existing_keys
    IN  [results |->
            IF paginate
            THEN (result_key :>
                    Dumps(paginated_result(Loads(results[log_key]).content, message.page,
                                           message.limit, message.reverse_order,
                                           message.raw_log))) @@ results
            ELSE results,
         paginated |-> paginate]

(* the page computed on every call, cached or not *)
execute_results_alwayspage(existing_keys, log_key, result_key, changed, current_size, content, message) ==
    LET results == IF changed
                   THEN (log_key :> Dumps([log_size |-> current_size, content |-> content]))
                   ELSE existing_keys
    IN  [results |->
            (result_key :>
                Dumps(paginated_result(Loads(results[log_key]).content, message.page,
                                       message.limit, message.reverse_order,
                                       message.raw_log))) @@ results,
         paginated |-> TRUE]

(* lines 136-153 once the content, when fetched, is at hand: the returned
   mapping, and whether paginated_result was called *)
execute_results(existing_keys, log_key, result_key, changed, current_size, content, message) ==
    LET results == IF changed
                   THEN (log_key :> Dumps([log_size |-> current_size, content |-> content]))
                   ELSE existing_keys
        paginate == changed \/ result_key \notin DOMAIN existing_keys
    IN  [results |->
            IF paginate
            THEN (result_key :>
                    Dumps(paginated_result(Loads(results[log_key]).content, message.page,
                                           message.limit, message.reverse_order,
                                           message.raw_log))) @@ results
            ELSE results,
         paginated |-> paginate]

(* utils.streamed_errors: an exception raised inside the block is sent to
   stream_output as an error event and raised again; leaving the block,
   either way, releases (finalizes) the streaming context. *)
streamed_errors(stream, outcome) ==
    IF Raised(outcome)
    THEN [stream |-> Append(stream, [type |-> "error", id |-> outcome.err]), raised |-> TRUE,
          finalized |-> TRUE]
    ELSE [stream |-> stream, raised |-> FALSE, finalized |-> TRUE]

(* a failed fetch answered from the cache: the existing entries are returned *)
execute_finish_servestale(c, content) ==
    LET fetch == IF c.log_size_changed THEN content ELSE Ok(<<>>)
        relay == streamed_errors(c.stream, fetch)
        out == execute_results(c.existing_keys, c.log_key, c.result_key,
                               c.log_size_changed, c.current_size, fetch.val, c.message)
    IN  IF relay.raised
        THEN [c EXCEPT !.pc = "returned", !.error = fetch.err,
                       !.client = Append(c.client, "content"),
                       !.stream = relay.stream, !.finalized = relay.finalized,
                       !.results = c.existing_keys]
        ELSE [c EXCEPT !.pc = "returned",
                       !.client = IF c.log_size_changed
                                  THEN Append(c.client, "content") ELSE c.client,
                       !.fetched = IF c.log_size_changed THEN <<fetch.val>> ELSE <<>>,
                       !.results = out.results,
                       !.paginated = out.paginated, !.finalized = relay.finalized]

(* invalidate_cache honoured: the log refetched whenever the flag is set *)
execute_finish_invalidate(c, content) ==
    LET changed == c.log_size_changed \/ c.invalidate_cache
        fetch == IF changed THEN content ELSE Ok(<<>>)
        relay == streamed_errors(c.stream, fetch)
        out == execute_results(c.existing_keys, c.log_key, c.result_key,
                               changed, c.current_size, fetch.val, c.message)
    IN  IF relay.raised
        THEN [c EXCEPT !.pc = "failed", !.error = fetch.err,
                       !.client = Append(c.client, "content"),
                       !.stream = relay.stream, !.finalized = relay.finalized]
        ELSE [c EXCEPT !.pc = "returned",
                       !.client = IF changed THEN Append(c.client, "content") ELSE c.client,
                       !.fetched = IF changed THEN <<fetch.val>> ELSE <<>>,
                       !.results = out.results,
                       !.paginated = out.paginated, !.finalized = relay.finalized]

(* lines 136-153 on a call that has read the size: get_log_content is called
   only when the size changed, and `content` is what the metadata client
   answers then; the call record after the return or the raise *)
execute_finish(c, content) ==
    LET fetch == IF c.log_size_changed THEN content ELSE Ok(<<>>)
        relay == streamed_errors(c.stream, fetch)
        out == execute_results(c.existing_keys, c.log_key, c.result_key,
                               c.log_size_changed, c.current_size, fetch.val, c.message)
    IN  IF relay.raised
        THEN [c EXCEPT !.pc = "failed", !.error = fetch.err,
                       !.client = Append(c.client, "content"),
                       !.stream = relay.stream, !.finalized = relay.finalized]
        ELSE [c EXCEPT !.pc = "returned",
                       !.client = IF c.log_size_changed
                                  THEN Append(c.client, "content") ELSE c.client,
                       !.fetched = IF c.log_size_changed THEN <<fetch.val>> ELSE <<>>,
                       !.results = out.results,
                       !.paginated = out.paginated, !.finalized = relay.finalized]

(* key.startswith(prefix) *)
StartsWith(key, prefix) ==
    Len(key) >= Len(prefix) /\ SubSeq(key, 1, Len(prefix)) = prefix

(* the cached log file taken for the result *)
response_logfile(keys_objs) ==
    LET hits == {key \in DOMAIN keys_objs : StartsWith(key, "log:file")}
    IN  IF hits = {} THEN {Raise("IndexError", "response")}
        ELSE {Ok(Loads(keys_objs[key])) : key \in hits}

(* response: the decoded value of the first entry whose key starts with
   'log:result', IndexError when there is none. The mapping's order is not
   kept here, so with several such entries any of them may be the first: the
   set of the outcomes. *)
response(keys_objs) ==
    LET hits == {key \in DOMAIN keys_objs : StartsWith(key, "log:result")}
    IN  IF hits = {} THEN {Raise("IndexError", "response")}
        ELSE {Ok(Loads(keys_objs[key])) : key \in hits}

(* ------------------------------------------------------------------ *)
(* Values of the variables a specification leaves alone             *)
(* ------------------------------------------------------------------ *)

Procs == {1, 2}

IdleMessage ==
    [task |-> EmptyDict, logtype |-> STDOUT, limit |-> 0, page |-> 1,
     reverse_order |-> FALSE, raw_log |-> FALSE]

IdleCall ==
    [pc |-> "idle", via |-> "", message |-> IdleMessage, existing_keys |-> EmptyDict,
     log_key |-> "", result_key |-> "", previous_log_size |-> Null,
     current_size |-> Null, log_size_changed |-> FALSE,
     results |-> EmptyDict, error |-> "", stream |-> <<>>,
     client |-> <<>>, fetched |-> <<>>, paginated |-> FALSE, finalized |-> FALSE,
     invalidate_cache |-> FALSE]

IdleKeyRequest ==
    [task |-> EmptyDict, logtype |-> STDOUT, limit |-> 0, page |-> 1,
     reverse_order |-> FALSE, raw_log |-> FALSE, invalidate_cache |-> FALSE]

IdleFetch == [task |-> TaskHandle(<<>>, <<>>), logtype |-> STDOUT, out |-> <<>>]

IdleBoot ==
    [pc |-> "idle", max_startup_retries |-> 0, startup_retry_wait_time_seconds |-> 0,
     retry_count |-> 0, attempts |-> 0, decrements |-> 0, sleeps |-> 0,
     connected |-> FALSE, closed |-> FALSE, gets |-> 0, config |-> FALSE]

IdlePage == [content |-> <<>>, page |-> 1, limit |-> 0, reverse_order |-> FALSE,
             output_raw |-> FALSE]

(* ------------------------------------------------------------------ *)
(* The action run by the cache framework against a growing log        *)
(* ------------------------------------------------------------------ *)

MaxLog == 3

(* the (datetime, line) pairs the task writes to stdout, in order, the second
   with a datetime that does not convert; stderr stays empty *)
MasterLog ==
    [i \in 1..MaxLog |-> <<IF i = 2 THEN BadDatetime ELSE 1000000 * i + 999,
                           "l" \o ToString(i)>>]

TaskA == [flow_id |-> "F", run_number |-> 1, step_name |-> "s", task_id |-> 1,
          attempt_id |-> 0]
(* the same task, named by run_id, with a stale run_number and no attempt_id *)
TaskB == [flow_id |-> "F", run_id |-> "1", run_number |-> 2, step_name |-> "s",
          task_name |-> None, task_id |-> 1]
NoFlow == [run_number |-> 1, step_name |-> "s", task_id |-> 1]
NoStep == [flow_id |-> "F", run_number |-> 1, task_id |-> 1]
NoRun == [flow_id |-> "F", run_id |-> None, step_name |-> "s", task_id |-> 1]
NoTask == [flow_id |-> "F", run_number |-> 1, step_name |-> "s", task_name |-> None]
(* a task whose record carries a null attempt_id *)
NullAttempt == [flow_id |-> "F", run_number |-> 1, step_name |-> "s", task_id |-> 1,
                attempt_id |-> Null]

View(limit, page, reverse_order, raw_log) ==
    [limit |-> limit, page |-> page, reverse_order |-> reverse_order, raw_log |-> raw_log]

ExecRequests ==
    [task : {TaskA}, logtype : {STDOUT},
     view : {View(0, 1, FALSE, FALSE), View(1, 2, TRUE, FALSE), View(1, 1, TRUE, TRUE)}]
    \cup [task : {TaskB}, logtype : {STDOUT}, view : {View(0, 1, FALSE, FALSE)}]
    \cup [task : {TaskA}, logtype : {STDERR}, view : {View(0, 1, FALSE, FALSE)}]
    \cup [task : {NoFlow, NoStep, NoRun, NoTask, NullAttempt}, logtype : {STDOUT},
          view : {View(0, 1, FALSE, FALSE)}]

(* dict restricted to the keys it has among `keys`: the framework's get *)
CacheGet(keys) == [k \in {keys[i] : i \in 1..Len(keys)} \cap DOMAIN store |-> store[k]]

Init ==
    /\ log = <<>>
    /\ store = EmptyDict
    /\ calls = [p \in Procs |-> IdleCall]
    /\ kreq = IdleKeyRequest /\ kres = <<>> /\ pin = IdlePage /\ pout = <<>>
    /\ lfetch = IdleFetch /\ boot = IdleBoot

(* the task writes one more line, while it has written fewer than n *)
AppendLineUpTo(n) ==
    /\ Len(log) < n
    /\ log' = Append(log, MasterLog[Len(log) + 1])
    /\ UNCHANGED <<store, calls, pureVars>>

AppendLine == AppendLineUpTo(MaxLog)

(* a client asks for a page: format_request, then the framework's lookup of
   the keys it names, then the dispatch of the message to a worker *)
RequestOf(p, requests, flags) ==
    /\ calls[p].pc = "idle"
    /\ \E r \in requests, invalidate_cache \in flags :
        LET f == format_request(r.task, r.logtype, r.view.limit, r.view.page,
                                r.view.reverse_order, r.view.raw_log, invalidate_cache)
            msg == [task |-> r.task, logtype |-> r.logtype,
                    limit |-> r.view.limit, page |-> r.view.page,
                    reverse_order |-> r.view.reverse_order, raw_log |-> r.view.raw_log]
        IN  calls' = [calls EXCEPT ![p] =
                IF Raised(f)
                THEN [IdleCall EXCEPT !.pc = "failed", !.via = "format_request",
                                     !.message = msg, !.error = f.err]
                ELSE [IdleCall EXCEPT !.pc = "dispatched", !.via = "format_request",
                                     !.message = f.val.msg,
                                     !.existing_keys = CacheGet(f.val.keys),
                                     !.invalidate_cache = f.val.invalidate_cache]]
    /\ UNCHANGED <<log, store, pureVars>>

Request(p) == RequestOf(p, ExecRequests, BOOLEAN)

(* execute called with a message and the whole store as existing_keys, as a
   test or another caller of the class method does *)
Call(p) ==
    /\ calls[p].pc = "idle"
    /\ \E r \in ExecRequests, invalidate_cache \in BOOLEAN :
        calls' = [calls EXCEPT ![p] =
            [IdleCall EXCEPT !.pc = "dispatched", !.via = "execute",
                            !.invalidate_cache = invalidate_cache,
                            !.message = [task |-> r.task, logtype |-> r.logtype,
                                         limit |-> r.view.limit, page |-> r.view.page,
                                         reverse_order |-> r.view.reverse_order,
                                         raw_log |-> r.view.raw_log],
                            !.existing_keys = store]]
    /\ UNCHANGED <<log, store, pureVars>>

(* execute, lines 111-134: the keys, Task(pathspec, attempt) and the size.
   The metadata client answers each of the two calls or raises. *)
ExecuteSize(p) ==
    /\ calls[p].pc = "dispatched"
    /\ \E answer \in {"ok", "no_task", "no_size"} :
        LET c == calls[p]
            prep == execute_prepare(c.message, c.existing_keys)
            task == IF answer = "no_task" THEN Raise("TaskUnavailable", "Task")
                    ELSE Ok(TaskHandle(log, <<>>))
            size == IF Raised(task) THEN task
                    ELSE IF answer = "no_size" THEN Raise("TaskUnavailable", "size")
                    ELSE Ok(get_log_size(task.val, c.message.logtype))
            relay == streamed_errors(c.stream, size)
        IN  calls' = [calls EXCEPT ![p] =
                IF Raised(prep)
                THEN [c EXCEPT !.pc = "failed", !.error = prep.err]
                ELSE IF relay.raised
                THEN [c EXCEPT !.pc = "failed", !.error = size.err,
                               !.log_key = prep.val.log_key,
                               !.result_key = prep.val.result_key,
                               !.previous_log_size = prep.val.previous_log_size,
                               !.client = IF Raised(task) THEN <<"Task">>
                                          ELSE <<"Task", "size">>,
                               !.stream = relay.stream, !.finalized = relay.finalized]
                ELSE [c EXCEPT !.pc = "sized",
                               !.log_key = prep.val.log_key,
                               !.result_key = prep.val.result_key,
                               !.previous_log_size = prep.val.previous_log_size,
                               !.client = <<"Task", "size">>,
                               !.current_size = size.val,
                               !.log_size_changed =
                                    log_size_changed(prep.val.previous_log_size, size.val)]]
    /\ UNCHANGED <<log, store, pureVars>>

(* execute, lines 136-153: the content when the size changed, the page, the
   returned mapping. The metadata client answers the content call or raises. *)
ExecuteContent(p) ==
    /\ calls[p].pc = "sized"
    /\ \E answer \in {"ok", "no_content"} :
        LET c == calls[p]
            content == IF answer = "no_content" THEN Raise("TaskUnavailable", "content")
                       ELSE Ok(get_log_content(TaskHandle(log, <<>>), c.message.logtype))
        IN  calls' = [calls EXCEPT ![p] = execute_finish(c, content)]
    /\ UNCHANGED <<log, store, pureVars>>

(* the framework persists the returned mapping *)
Put(p) ==
    /\ calls[p].pc = "returned"
    /\ store' = calls[p].results @@ store
    /\ calls' = [calls EXCEPT ![p] = IdleCall]
    /\ UNCHANGED <<log, pureVars>>

(* the framework drops a failed call *)
Drop(p) ==
    /\ calls[p].pc = "failed"
    /\ calls' = [calls EXCEPT ![p] = IdleCall]
    /\ UNCHANGED <<log, store, pureVars>>

Next ==
    \/ AppendLine
    \/ Request(1)
    \/ Call(1)
    \/ ExecuteSize(1)
    \/ ExecuteContent(1)
    \/ Put(1)
    \/ Drop(1)

Spec == Init /\ [][Next]_vars

(* the traffic of the cache framework alone: every execute is dispatched from
   format_request with the entries under log_key and result_key, one call at a
   time *)
NextClient ==
    \/ AppendLine
    \/ Request(1)
    \/ ExecuteSize(1)
    \/ ExecuteContent(1)
    \/ Put(1)
    \/ Drop(1)

SpecClient == Init /\ [][NextClient]_vars

(* the framework running two workers at once: calls for the same or for
   different keys overlap, the log grows at any moment, and a put overwrites
   whatever another worker has put since this worker's entries were read *)
MaxConcLog == 2

(* two views of one log *)
ConcRequests ==
    [task : {TaskA}, logtype : {STDOUT},
     view : {View(0, 1, FALSE, FALSE), View(1, 2, TRUE, FALSE)}]

ConcAppendLine == AppendLineUpTo(MaxConcLog)

ConcRequest(p) == RequestOf(p, ConcRequests, {FALSE})

NextConc ==
    \/ ConcAppendLine
    \/ \E p \in Procs :
        \/ ConcRequest(p)
        \/ ExecuteSize(p)
        \/ ExecuteContent(p)
        \/ Put(p)
        \/ Drop(p)

SpecConc == Init /\ [][NextConc]_vars

(* ------------------------------------------------------------------ *)
(* Key derivation applied to bounded requests                         *)
(* ------------------------------------------------------------------ *)

Opt(name, vals) == {EmptyDict} \cup {name :> v : v \in vals}

(* run_number, task_id and attempt_id are integer columns; run_id and
   task_name are nullable text columns. *)
FieldValues(field) ==
    CASE field = "flow_id" -> {"F"}
      [] field = "run_id" -> {None, "1"}
      [] field = "run_number" -> {1, 2}
      [] field = "step_name" -> {"s"}
      [] field = "task_name" -> {None, "t"}
      [] field = "task_id" -> {1}
      [] field = "attempt_id" -> {0, 1}

TaskFields ==
    {"flow_id", "run_id", "run_number", "step_name", "task_name", "task_id", "attempt_id"}

KeyTasks ==
    {a @@ b @@ c @@ d @@ e @@ f @@ g :
        a \in Opt("flow_id", FieldValues("flow_id")),
        b \in Opt("run_id", FieldValues("run_id")),
        c \in Opt("run_number", FieldValues("run_number")),
        d \in Opt("step_name", FieldValues("step_name")),
        e \in Opt("task_name", FieldValues("task_name")),
        f \in Opt("task_id", FieldValues("task_id")),
        g \in Opt("attempt_id", FieldValues("attempt_id"))}

KeyRequests ==
    [task : KeyTasks, logtype : {STDOUT, STDERR}, limit : {0, 1}, page : {1, 2},
     reverse_order : BOOLEAN, raw_log : BOOLEAN, invalidate_cache : BOOLEAN]

FormatOf(r) ==
    format_request(r.task, r.logtype, r.limit, r.page, r.reverse_order, r.raw_log,
                   r.invalidate_cache)

(* ------------------------------------------------------------------ *)
(* The paginator applied to bounded inputs                            *)
(* ------------------------------------------------------------------ *)

MaxLen == 4
MaxLimit == 3
MaxPage == 3

(* LogRecord: <<timestamp in epoch ms or Null, line>> *)
Records == {<<1000, "a">>, <<Null, "b">>, <<2000, "a">>}

SeqsUpTo(S, n) == UNION {[1..k -> S] : k \in 0..n}

(* n distinct records, row i carrying timestamp i and line "l<i>" *)
NumberedLog(n) == [i \in 1..n |-> <<i - 1, "l" \o ToString(i - 1)>>]

PageInputs ==
    [content : SeqsUpTo(Records, MaxLen), page : 1..MaxPage, limit : 0..MaxLimit,
     reverse_order : BOOLEAN, output_raw : BOOLEAN]
    \cup
    [content : {NumberedLog(10), NumberedLog(25)}, page : 1..MaxPage, limit : {0, 3, 10},
     reverse_order : BOOLEAN, output_raw : BOOLEAN]

InitKeys ==
    /\ kreq \in KeyRequests
    /\ kres = <<>>
    /\ pin = IdlePage
    /\ pout = <<>>
    /\ log = <<>> /\ store = EmptyDict /\ calls = [p \in Procs |-> IdleCall]
    /\ lfetch = IdleFetch /\ boot = IdleBoot

DeriveKeys ==
    /\ kres = <<>>
    /\ kres' = <<[fmt |-> FormatOf(kreq), pathspec |-> pathspec_for_task(kreq.task)]>>
    /\ UNCHANGED <<kreq, pin, pout, log, store, calls, lfetch, boot>>

NextKeys == DeriveKeys

SpecKeys == InitKeys /\ [][NextKeys]_vars

InitPage ==
    /\ pin \in PageInputs
    /\ pout = <<>>
    /\ kreq = IdleKeyRequest
    /\ kres = <<>>
    /\ log = <<>> /\ store = EmptyDict /\ calls = [p \in Procs |-> IdleCall]
    /\ lfetch = IdleFetch /\ boot = IdleBoot

ApplyPaginator ==
    /\ pout = <<>>
    /\ pout' = <<paginated_result(pin.content, pin.page, pin.limit, pin.reverse_order,
                                  pin.output_raw)>>
    /\ UNCHANGED <<pin, kreq, kres, log, store, calls, lfetch, boot>>

NextPage == ApplyPaginator

SpecPage == InitPage /\ [][NextPage]_vars

(* ------------------------------------------------------------------ *)
(* get_log_content on bounded inputs (SpecFetch)                      *)
(* ------------------------------------------------------------------ *)

MaxPairs == 3
MaxBlob == 3

(* datetimes: two that convert (1 ms and 2000 ms after truncation) and the one
   that does not *)
Datetimes == {1500, 2000999, BadDatetime}
Pairs == Datetimes \X {"a", "b"}

BlobChars == {"a", "\n"}

RECURSIVE BlobsUpTo(_)
BlobsUpTo(n) ==
    IF n = 0 THEN {""}
    ELSE LET shorter == BlobsUpTo(n - 1)
         IN  shorter \cup {b \o c : b \in shorter, c \in BlobChars}

(* what the other stream of the task holds *)
OtherPairs == <<<<7000000, "other">>>>
OtherBlob == "other"

FetchInputs ==
    {[task |-> TaskHandle(s, OtherPairs), logtype |-> STDOUT, out |-> <<>>] :
        s \in SeqsUpTo(Pairs, MaxPairs)}
    \cup {[task |-> TaskHandle(OtherPairs, s), logtype |-> STDERR, out |-> <<>>] :
        s \in SeqsUpTo(Pairs, MaxPairs)}
    \cup {[task |-> LegacyTaskHandle(b, OtherBlob), logtype |-> STDOUT, out |-> <<>>] :
        b \in BlobsUpTo(MaxBlob)}
    \cup {[task |-> LegacyTaskHandle(OtherBlob, b), logtype |-> STDERR, out |-> <<>>] :
        b \in BlobsUpTo(MaxBlob)}

InitFetch ==
    /\ lfetch \in FetchInputs
    /\ kreq = IdleKeyRequest /\ kres = <<>> /\ pin = IdlePage /\ pout = <<>>
    /\ log = <<>> /\ store = EmptyDict /\ calls = [p \in Procs |-> IdleCall]
    /\ boot = IdleBoot

ApplyFetch ==
    /\ lfetch.out = <<>>
    /\ lfetch' = [lfetch EXCEPT !.out = <<get_log_content(lfetch.task, lfetch.logtype)>>]
    /\ UNCHANGED <<kreq, kres, pin, pout, log, store, calls, boot>>

NextFetch == ApplyFetch

SpecFetch == InitFetch /\ [][NextFetch]_vars

(* ------------------------------------------------------------------ *)
(* The start-up script of the migration service (SpecBoot)            *)
(* ------------------------------------------------------------------ *)

MaxRetries == 4

(* the finally clause of the loop body, line 25 *)
finally_decrement(b) ==
    [b EXCEPT !.retry_count = @ - 1, !.decrements = @ + 1]

(* lines 10-11: the socket is made and retry_count set, for any configured
   budget and wait *)
InitBoot ==
    /\ \E budget \in (0 - 1)..MaxRetries, wait \in {0 - 1, 0, 1} :
        boot = [IdleBoot EXCEPT !.pc = "while", !.max_startup_retries = budget,
                                !.startup_retry_wait_time_seconds = wait,
                                !.retry_count = budget]
    /\ kreq = IdleKeyRequest /\ kres = <<>> /\ pin = IdlePage /\ pout = <<>>
    /\ log = <<>> /\ store = EmptyDict /\ calls = [p \in Procs |-> IdleCall]
    /\ lfetch = IdleFetch

BootUnchanged == UNCHANGED <<kreq, kres, pin, pout, log, store, calls, lfetch>>

(* line 12: the loop test *)
BootWhile ==
    /\ boot.pc = "while"
    /\ boot' = [boot EXCEPT !.pc = IF boot.retry_count > 0 THEN "connect" ELSE "close"]
    /\ BootUnchanged

(* the decrement made only on the failure path *)
BootConnect_decrementonfailure ==
    /\ boot.pc = "connect"
    /\ \E answer \in {"connected", "refused"} :
        LET tried == [boot EXCEPT !.attempts = @ + 1]
        IN  boot' = IF answer = "connected"
                    THEN [tried EXCEPT !.connected = TRUE, !.pc = "close"]
                    ELSE [tried EXCEPT !.pc = "sleep"]
    /\ BootUnchanged

(* lines 14-19, and 25 on the way out of the break: s.connect returns, then
   break with the finally clause run, or raises socket.error, which enters the
   handler *)
BootConnect ==
    /\ boot.pc = "connect"
    /\ \E answer \in {"connected", "refused"} :
        LET tried == [boot EXCEPT !.attempts = @ + 1]
        IN  boot' = IF answer = "connected"
                    THEN finally_decrement([tried EXCEPT !.connected = TRUE, !.pc = "close"])
                    ELSE [tried EXCEPT !.pc = "sleep"]
    /\ BootUnchanged

(* lines 20-25: the handler sleeps, then the finally clause; time.sleep of a
   negative wait raises ValueError, which leaves the script after the finally
   clause *)
BootSleep ==
    /\ boot.pc = "sleep"
    /\ boot' = IF boot.startup_retry_wait_time_seconds < 0
               THEN finally_decrement([boot EXCEPT !.pc = "aborted"])
               ELSE finally_decrement([boot EXCEPT !.sleeps = @ + 1, !.pc = "while"])
    /\ BootUnchanged

(* line 27 *)
BootClose ==
    /\ boot.pc = "close"
    /\ boot' = [boot EXCEPT !.closed = TRUE, !.pc = "get"]
    /\ BootUnchanged

(* lines 29-35: the GET of /version, and the config file written when it
   answers; a failed GET raises and ends the script *)
BootGet ==
    /\ boot.pc = "get"
    /\ \E answer \in {"answered", "failed"} :
        boot' = IF answer = "answered"
                THEN [boot EXCEPT !.gets = @ + 1, !.config = TRUE, !.pc = "done"]
                ELSE [boot EXCEPT !.gets = @ + 1, !.pc = "crashed"]
    /\ BootUnchanged

NextBoot ==
    \/ BootWhile
    \/ BootConnect
    \/ BootSleep
    \/ BootClose
    \/ BootGet

(* the script is one sequential process that keeps running: each of its calls
   returns or raises *)
SpecBoot == InitBoot /\ [][NextBoot]_vars /\ WF_vars(NextBoot)

(* ------------------------------------------------------------------ *)
(* Properties of the paginator (SpecPage)                             *)
(* ------------------------------------------------------------------ *)

Paged == pout # <<>> /\ ~pin.output_raw
RawApplied == pout # <<>> /\ pin.output_raw

(* C5: non-raw formatting of N records returns pages = max(floor(N / limit), 1)
   when limit > 0 and pages = 1 when limit = 0; a page beyond that count gets
   empty content and the same count (25 records, limit 10: pages 2, page 3
   empty). The floor is stated by its bounds, pages * limit <= N < (pages + 1) * limit. *)
C5_PageCount ==
    Paged =>
        LET N == Len(pin.content)
            pages == pout[1].pages
        IN  /\ pin.limit = 0 => pages = 1
            /\ pin.limit > 0 /\ N < pin.limit => pages = 1
            /\ pin.limit > 0 /\ N >= pin.limit =>
                    pages * pin.limit <= N /\ N < (pages + 1) * pin.limit
            /\ pin.page > pages => pout[1].content = <<>>
            /\ N = 25 /\ pin.limit = 10 => pages = 2

C5_Witness ==
    /\ Paged
    /\ pin.content = NumberedLog(25) /\ pin.limit = 10 /\ pin.page = 3
    /\ pout[1] = [content |-> <<>>, pages |-> 2]

(* C6: non-raw formatting of a page within the page count slices the (fully
   reversed, when reverse is set) sequence at offset limit * (page - 1): entry
   j of the content is original row N - offset - j (reverse) or offset + j - 1
   (forward), the content has min(limit, N - offset) entries (all N when limit
   is 0), and every entry carries the timestamp and line of its original row. *)
C6_ReverseBeforeSlice ==
    Paged /\ pin.page <= pout[1].pages =>
        LET N == Len(pin.content)
            offset == pin.limit * (pin.page - 1)
            got == pout[1].content
        IN  /\ Len(got) = IF pin.limit = 0 THEN N ELSE Min(pin.limit, Max(N - offset, 0))
            /\ \A j \in 1..Len(got) :
                /\ got[j].row = IF pin.reverse_order THEN N - offset - j ELSE offset + j - 1
                /\ got[j].timestamp = pin.content[got[j].row + 1][1]
                /\ got[j].line = pin.content[got[j].row + 1][2]

C6_Witness ==
    /\ Paged
    /\ pin.content = NumberedLog(10) /\ pin.limit = 3 /\ pin.page = 1 /\ pin.reverse_order
    /\ [j \in 1..Len(pout[1].content) |-> pout[1].content[j].row] = <<9, 8, 7>>

(* the newline-join of the line texts, folded from the last line *)
RECURSIVE NewlineJoin(_, _)
NewlineJoin(content, n) ==
    IF n = 0 THEN ""
    ELSE IF n = 1 THEN content[1][2]
    ELSE NewlineJoin(content, n - 1) \o "\n" \o content[n][2]

(* C7: with raw set, whatever limit, page and reverse are, the content is the
   newline-join of all line texts in original order and pages is 1. *)
C7_RawMode ==
    RawApplied =>
        /\ pout[1].content = NewlineJoin(pin.content, Len(pin.content))
        /\ pout[1].pages = 1
        /\ pin.content = <<<<1000, "a">>, <<Null, "b">>>> => pout[1].content = "a\nb"

C7_Witness ==
    /\ RawApplied
    /\ pin.reverse_order /\ pin.limit = 1 /\ pin.page = 3
    /\ pin.content = <<<<1000, "a">>, <<Null, "b">>>>
    /\ pout[1] = [content |-> "a\nb", pages |-> 1]

(* ------------------------------------------------------------------ *)
(* Properties of the key derivation (SpecKeys)                        *)
(* ------------------------------------------------------------------ *)

Derived == kres # <<>> /\ ~Raised(kres[1].fmt)

(* the task references that differ from t in at most one field, dropped,
   added or changed *)
OneFieldAway(t) ==
    {t} \cup {[k \in DOMAIN t \ {f} |-> t[k]] : f \in DOMAIN t}
        \cup UNION {{(f :> v) @@ t : v \in FieldValues(f)} : f \in TaskFields}

(* the requests that differ from r in at most one of its six parameters, the
   task reference in at most two of its fields *)
Neighbours(r) ==
    {[r EXCEPT !.task = t] : t \in UNION {OneFieldAway(u) : u \in OneFieldAway(r.task)}}
    \cup {[r EXCEPT !.logtype = l] : l \in {STDOUT, STDERR}}
    \cup {[r EXCEPT !.limit = l] : l \in {0, 1}}
    \cup {[r EXCEPT !.page = q] : q \in {1, 2}}
    \cup {[r EXCEPT !.reverse_order = b] : b \in BOOLEAN}
    \cup {[r EXCEPT !.raw_log = b] : b \in BOOLEAN}

SameParameters(a, b) ==
    /\ a.task = b.task /\ a.logtype = b.logtype /\ a.limit = b.limit
    /\ a.page = b.page /\ a.reverse_order = b.reverse_order /\ a.raw_log = b.raw_log

SameViewOfSameLog(a, b) ==
    /\ FormatOf(a).val.keys[1] = FormatOf(b).val.keys[1]
    /\ a.limit = b.limit /\ a.page = b.page
    /\ a.reverse_order = b.reverse_order /\ a.raw_log = b.raw_log

SameLogIdentity(a, b) ==
    /\ pathspec_for_task(a.task) = pathspec_for_task(b.task)
    /\ Get(a.task, "attempt_id", 0) = Get(b.task, "attempt_id", 0)
    /\ a.logtype = b.logtype

(* C8 as stated: equal (task, logtype, limit, page, reverse, raw) give equal
   result_key and stream_key, and a difference in any one of them, the task
   reference included, gives a different result_key and stream_key. *)
C8_AnyDifferenceChangesKeys ==
    Derived =>
        \A o \in Neighbours(kreq) :
            ~Raised(FormatOf(o)) =>
                LET mine == kres[1].fmt.val
                    other == FormatOf(o).val
                IN  IF SameParameters(o, kreq)
                    THEN other.keys[2] = mine.keys[2] /\ other.stream_key = mine.stream_key
                    ELSE other.keys[2] # mine.keys[2] /\ other.stream_key # mine.stream_key

(* C8 amended: two requests have the same result_key, and the same stream_key,
   exactly when they have the same log_key, limit, page, reverse and raw; and
   the log_key is the same whenever pathspec, attempt_id (0 when absent) and
   logtype are. Task references that render the same pathspec and attempt
   share all their keys. *)
C8_KeysFollowLogKeyAndView ==
    Derived =>
        \A o \in Neighbours(kreq) :
            ~Raised(FormatOf(o)) =>
                LET mine == kres[1].fmt.val
                    other == FormatOf(o).val
                IN  /\ (other.keys[2] = mine.keys[2]) <=> SameViewOfSameLog(o, kreq)
                    /\ (other.stream_key = mine.stream_key) <=> SameViewOfSameLog(o, kreq)
                    /\ SameLogIdentity(o, kreq) => other.keys[1] = mine.keys[1]
                    /\ o.logtype # kreq.logtype => other.keys[2] # mine.keys[2]

C8_Witness ==
    /\ Derived
    /\ \E o \in Neighbours(kreq) :
        /\ ~Raised(FormatOf(o))
        /\ o.task # kreq.task
        /\ "run_id" \in DOMAIN kreq.task /\ kreq.task["run_id"] = "1"
        /\ "run_number" \in DOMAIN kreq.task /\ "run_number" \in DOMAIN o.task
        /\ o.task["run_number"] # kreq.task["run_number"]
        /\ FormatOf(o).val.keys = kres[1].fmt.val.keys
    /\ \E o \in Neighbours(kreq) :
        /\ o.page # kreq.page
        /\ FormatOf(o).val.keys[2] # kres[1].fmt.val.keys[2]

Carries(task, field) == field \in DOMAIN task /\ task[field] # None

(* C9: pathspec(task) is flow_id/run/step_name/task, run being run_id whenever
   the task carries one (run_number present or not) and run_number otherwise,
   task being task_name whenever the task carries one and task_id otherwise. *)
C9_PathspecPrecedence ==
    kres # <<>> /\ ~Raised(kres[1].pathspec) =>
        LET t == kreq.task
            run == IF Carries(t, "run_id") THEN t["run_id"] ELSE ToString(t["run_number"])
            tsk == IF Carries(t, "task_name") THEN t["task_name"] ELSE ToString(t["task_id"])
        IN  kres[1].pathspec.val = t["flow_id"] \o "/" \o run \o "/" \o t["step_name"] \o "/" \o tsk

C9_Witness ==
    /\ kres # <<>>
    /\ kreq.task = [flow_id |-> "F", run_id |-> "1", run_number |-> 2, step_name |-> "s",
                    task_name |-> "t", task_id |-> 1]
    /\ kres[1].pathspec = Ok("F/1/s/t")

(* ------------------------------------------------------------------ *)
(* Properties of execute (Spec)                                       *)
(* ------------------------------------------------------------------ *)

(* the cached size the call found under log_key, Null when there is none *)
CachedSize(c) ==
    IF c.log_key \in DOMAIN c.existing_keys
    THEN Loads(c.existing_keys[c.log_key]).log_size
    ELSE Null

(* C1: a call that finds the cached log_size equal to the size the metadata
   client reports, and an entry under its result_key, returns the existing
   entries as they are, without fetching the content and without computing a
   page. *)
C1_ShortCircuit ==
    \A p \in Procs :
        LET c == calls[p]
        IN  /\ c.pc = "returned"
            /\ CachedSize(c) = c.current_size
            /\ c.result_key \in DOMAIN c.existing_keys
            => /\ c.fetched = <<>>
               /\ c.client = <<"Task", "size">>
               /\ ~c.paginated
               /\ c.results = c.existing_keys

C1_Witness ==
    /\ calls[1].pc = "returned"
    /\ CachedSize(calls[1]) = calls[1].current_size
    /\ calls[1].current_size > 0
    /\ calls[1].result_key \in DOMAIN calls[1].existing_keys
    /\ calls[1].results = calls[1].existing_keys

(* C2: once the size is read, the content is fetched exactly when no size is
   cached or the cached size differs from the one read; a fetch writes under
   log_key the size read and the records fetched, and without a fetch the
   entry under log_key, content included, is the cached one. *)
C2_FetchIffStale ==
    \A p \in Procs :
        LET c == calls[p]
            stale == CachedSize(c) = Null \/ CachedSize(c) # c.current_size
        IN  /\ c.pc = "returned" => ((c.fetched # <<>>) <=> stale)
            /\ c.pc = "returned" => (("content" \in {c.client[i] : i \in 1..Len(c.client)})
                                        <=> stale)
            /\ c.pc = "failed" /\ c.client = <<"Task", "size", "content">> => c.log_size_changed
            /\ c.pc = "sized" => (c.log_size_changed <=> stale)
            /\ c.pc = "returned" /\ c.fetched # <<>> =>
                    Loads(c.results[c.log_key]) =
                        [log_size |-> c.current_size, content |-> c.fetched[1]]
            /\ c.pc = "returned" /\ c.fetched = <<>> =>
                    /\ c.results[c.log_key] = c.existing_keys[c.log_key]
                    /\ Loads(c.results[c.log_key]).content =
                            Loads(c.existing_keys[c.log_key]).content

C2_Witness ==
    /\ calls[1].pc = "returned"
    /\ CachedSize(calls[1]) # Null
    /\ CachedSize(calls[1]) # calls[1].current_size
    /\ calls[1].fetched = <<get_log_content(TaskHandle(log, <<>>), STDOUT)>>
    /\ Len(log) = MaxLog
    /\ Loads(calls[1].results[calls[1].log_key]).content = calls[1].fetched[1]

(* C3: a page is computed and written under result_key exactly when the
   content was refetched in this call or no entry was cached under result_key;
   the page written is the paginator applied, with the message's page, limit,
   reverse and raw, to the content under log_key in the returned mapping. *)
C3_PageWhenNeeded ==
    \A p \in Procs :
        LET c == calls[p]
            m == c.message
        IN  c.pc = "returned" =>
                /\ c.paginated <=>
                        (c.fetched # <<>> \/ c.result_key \notin DOMAIN c.existing_keys)
                /\ c.paginated =>
                        c.results[c.result_key] =
                            Dumps(paginated_result(Loads(c.results[c.log_key]).content,
                                                   m.page, m.limit, m.reverse_order,
                                                   m.raw_log))
                /\ c.paginated /\ c.fetched # <<>> =>
                        c.results[c.result_key] =
                            Dumps(paginated_result(c.fetched[1], m.page, m.limit,
                                                   m.reverse_order, m.raw_log))
                /\ ~c.paginated => c.results[c.result_key] = c.existing_keys[c.result_key]

C3_Witness ==
    /\ calls[1].pc = "returned"
    /\ calls[1].paginated
    /\ calls[1].fetched # <<>>
    /\ calls[1].result_key \in DOMAIN calls[1].existing_keys
    /\ calls[1].results[calls[1].result_key] # calls[1].existing_keys[calls[1].result_key]

(* C4: when the metadata client raises (building the task handle, reading the
   size or fetching the content), the call fails with one error event on the
   stream and returns no mapping, so no entry reaches the store; a call that
   returns has written nothing to the stream and returns both the
   CachedLogFile and the complete PaginatedResult. *)
C4_FailsAsAWhole ==
    \A p \in Procs :
        LET c == calls[p]
        IN  /\ c.error = "TaskUnavailable" =>
                /\ c.pc = "failed"
                /\ c.stream = <<[type |-> "error", id |-> "TaskUnavailable"]>>
                /\ c.results = EmptyDict
                /\ ~c.paginated
            /\ c.pc = "returned" =>
                /\ c.error = ""
                /\ c.stream = <<>>
                /\ {c.log_key, c.result_key} \subseteq DOMAIN c.results

C4_Witness ==
    /\ calls[1].pc = "failed"
    /\ calls[1].error = "TaskUnavailable"
    /\ calls[1].client = <<"Task", "size", "content">>
    /\ calls[1].existing_keys # EmptyDict
    /\ Len(calls[1].stream) = 1
    /\ calls[1].results = EmptyDict

LacksIdentity(t) ==
    \/ "flow_id" \notin DOMAIN t
    \/ "step_name" \notin DOMAIN t
    \/ ~Carries(t, "run_id") /\ "run_number" \notin DOMAIN t
    \/ ~Carries(t, "task_name") /\ "task_id" \notin DOMAIN t

(* C10: a task reference without flow_id, without step_name, with neither
   run_id nor run_number, or with neither task_name nor task_id makes
   format_request and execute fail with a KeyError before any call to the
   metadata client, before any write to the stream and without a returned
   mapping; a task reference with its identity fields never fails so. *)
C10_MissingFieldBeforeIO ==
    \A p \in Procs :
        LET c == calls[p]
        IN  c.pc # "idle" =>
                /\ LacksIdentity(c.message.task) =>
                    /\ c.pc = "failed" \/ (c.pc = "dispatched" /\ c.via = "execute")
                    /\ c.pc = "failed" =>
                        /\ c.error = "KeyError"
                        /\ c.client = <<>>
                        /\ c.stream = <<>>
                        /\ c.results = EmptyDict
                /\ ~LacksIdentity(c.message.task) => c.error # "KeyError"

C10_Witness ==
    /\ calls[1].pc = "failed"
    /\ calls[1].via = "execute"
    /\ calls[1].message.task = NoRun
    /\ calls[1].error = "KeyError"
    /\ calls[1].client = <<>>
    /\ store # EmptyDict

(* ------------------------------------------------------------------ *)
(* Properties of the log fetch (SpecFetch)                            *)
(* ------------------------------------------------------------------ *)

Fetched == lfetch.out # <<>>
IsLegacy == lfetch.task.metadata_dict # EmptyDict
SourcePairs == IF lfetch.logtype = STDERR THEN lfetch.task.stderr ELSE lfetch.task.stdout
SourceBlob ==
    IF lfetch.logtype = STDERR THEN lfetch.task.legacy_stderr ELSE lfetch.task.legacy_stdout

Newlines(blob) == Cardinality({i \in 1..Len(blob) : SubSeq(blob, i, i) = "\n"})

(* the lines of a text: each newline ends one, and text after the last newline
   is one more *)
LineCount(blob) ==
    Newlines(blob)
        + (IF Len(blob) > 0 /\ SubSeq(blob, Len(blob), Len(blob)) # "\n" THEN 1 ELSE 0)

(* modern logs: one record per (datetime, line) pair, in source order, the
   line unchanged, the timestamp the datetime in epoch milliseconds, or null for
   a datetime that does not convert *)
ModernRecords ==
    Fetched /\ ~IsLegacy =>
        LET out == lfetch.out[1]
        IN  /\ Len(out) = Len(SourcePairs)
            /\ \A i \in 1..Len(out) :
                /\ out[i][2] = SourcePairs[i][2]
                /\ SourcePairs[i][1] = BadDatetime => out[i][1] = Null
                /\ SourcePairs[i][1] # BadDatetime =>
                        /\ out[i][1] * 1000 <= SourcePairs[i][1]
                        /\ SourcePairs[i][1] < (out[i][1] + 1) * 1000

(* legacy logs: the records are the texts between the newlines of the blob,
   in order, each with a null timestamp *)
LegacySegments ==
    Fetched /\ IsLegacy =>
        LET out == lfetch.out[1]
        IN  /\ Len(out) = Newlines(SourceBlob) + 1
            /\ \A i \in 1..Len(out) : out[i][1] = Null
            /\ JoinLines(out) = SourceBlob
            /\ \A i \in 1..Len(out) : Newlines(out[i][2]) = 0

(* C11: modern logs yield one record per (datetime, line) pair in source
   order, with a null timestamp exactly for the datetimes that do not convert;
   legacy logs yield one record per line of the blob, each with a null
   timestamp. *)
C11_RecordPerPairOrLine ==
    /\ ModernRecords
    /\ Fetched /\ IsLegacy =>
        /\ Len(lfetch.out[1]) = LineCount(SourceBlob)
        /\ \A i \in 1..Len(lfetch.out[1]) : lfetch.out[1][i][1] = Null

C11_Witness ==
    /\ Fetched /\ IsLegacy
    /\ SourceBlob = "a\n"
    /\ lfetch.out[1] = <<<<Null, "a">>, <<Null, "">>>>

(* ------------------------------------------------------------------ *)
(* Properties of the cached entries over time (Spec)                  *)
(* ------------------------------------------------------------------ *)

ResultKeys(d) == {key \in DOMAIN d : StartsWith(key, "log:result")}

(* C12, as stated: once an entry is written under a result_key, no later
   execute writes a different value under that key. *)
C12_ResultNeverRewritten ==
    [][\A key \in ResultKeys(store) : key \in DOMAIN store' /\ store'[key] = store[key]]_vars

(* C12, amended: with executes run one at a time, the value under an existing
   result_key changes only by the put of an execute for that key which found
   the log size changed and refetched, and then it becomes the page of the
   refetched content; an execute that found the size unchanged rewrites no
   page, and no entry is ever removed. *)
C12_RewrittenOnlyOnRefetch ==
    [][\A key \in ResultKeys(store) :
        /\ key \in DOMAIN store'
        /\ store'[key] # store[key] =>
            \E p \in Procs :
                LET c == calls[p]
                IN  /\ c.pc = "returned" /\ c.log_size_changed /\ c.result_key = key
                    /\ c.fetched # <<>>
                    /\ store'[key] =
                        Dumps(paginated_result(c.fetched[1], c.message.page, c.message.limit,
                                               c.message.reverse_order, c.message.raw_log))]_vars

(* an execute has returned, under a result_key that holds a page in the store,
   another page: the one of the refetched content *)
C12_Witness ==
    LET c == calls[1]
    IN  /\ c.pc = "returned" /\ c.log_size_changed
        /\ c.result_key \in DOMAIN store
        /\ store[c.result_key] = c.existing_keys[c.result_key]
        /\ c.results[c.result_key] # store[c.result_key]
        /\ Loads(c.results[c.result_key]).content # <<>>

(* ------------------------------------------------------------------ *)
(* Properties of the returned mapping (Spec)                          *)
(* ------------------------------------------------------------------ *)

OnlyPrefetched(c) == DOMAIN c.existing_keys \subseteq {c.log_key, c.result_key}

(* C13: an execute that returns, and was handed no entries but those under
   log_key and result_key, returns a mapping that holds log_key and exactly one
   key starting with 'log:result', the request's result_key; response on
   that mapping gives the decoded PaginatedResult stored under it. *)
C13_ResponseIsTheRequestedPage ==
    \A p \in Procs :
        LET c == calls[p]
        IN  c.pc = "returned" /\ OnlyPrefetched(c) =>
                /\ c.log_key \in DOMAIN c.results
                /\ ResultKeys(c.results) = {c.result_key}
                /\ \A r \in response(c.results) :
                        ~Raised(r) /\ DOMAIN r.val = {"content", "pages"}
                /\ response(c.results) = {Ok(Loads(c.results[c.result_key]))}

C13_Witness ==
    LET c == calls[1]
    IN  /\ c.pc = "returned" /\ c.via = "format_request"
        /\ DOMAIN c.existing_keys = {c.log_key, c.result_key}
        /\ ~c.log_size_changed
        /\ c.message.page = 2 /\ ~c.message.raw_log
        /\ response(c.results) =
                {Ok(paginated_result(get_log_content(TaskHandle(log, <<>>), STDOUT),
                                     2, 1, TRUE, FALSE))}
        /\ Len(log) = 2

(* ------------------------------------------------------------------ *)
(* Properties of the stream sink (Spec)                               *)
(* ------------------------------------------------------------------ *)

(* execute has returned or raised; a request that failed in format_request,
   which raises nothing but KeyError, never reached execute *)
ExecuteExited(c) ==
    \/ c.pc = "returned"
    \/ c.pc = "failed" /\ (c.via = "execute" \/ c.error # "KeyError")

(* C14: on every exit path of execute, success, a failed log fetch, or a
   failure outside the fetch such as key derivation, the action has finalized
   the streaming sink. *)
C14_StreamFinalizedOnEveryExit ==
    \A p \in Procs : ExecuteExited(calls[p]) => calls[p].finalized

(* execute, dispatched by the framework for a task with a null attempt_id,
   raised TypeError at int(attempt_id), before the streaming context was
   entered: nothing was sent to the sink and nothing released it *)
C14_Witness ==
    /\ calls[1].pc = "failed" /\ calls[1].via = "format_request"
    /\ calls[1].error = "TypeError"
    /\ calls[1].client = <<>> /\ calls[1].stream = <<>>
    /\ ~calls[1].finalized

(* inside the streaming context every exit releases the sink *)
FinalizedInsideContext ==
    \A p \in Procs :
        ExecuteExited(calls[p]) /\ calls[p].client # <<>> => calls[p].finalized

(* the page of the returned mapping is the paginator applied to the content
   of the log file entry of the same mapping *)
PageOfReturnedContent(c) ==
    Loads(c.results[c.result_key]) =
        paginated_result(Loads(c.results[c.log_key]).content, c.message.page,
                         c.message.limit, c.message.reverse_order, c.message.raw_log)

(* C15: with every returned mapping put in the store and every call handed
   the entries under its log_key and result_key, the PaginatedResult under
   result_key of a returned mapping equals the paginator applied to the content
   of the CachedLogFile under log_key of that mapping. *)
C15_PageMatchesCachedContent ==
    \A p \in Procs : calls[p].pc = "returned" => PageOfReturnedContent(calls[p])

(* a call that found the size unchanged returns, next to the current content,
   a page that was computed from shorter content *)
C15_Witness ==
    LET c == calls[1]
    IN  /\ c.pc = "returned" /\ ~c.log_size_changed
        /\ c.message.page = 2 /\ ~c.message.raw_log
        /\ c.result_key \in DOMAIN c.existing_keys
        /\ Len(Loads(c.results[c.log_key]).content) = 2
        /\ c.results[c.result_key] = c.existing_keys[c.result_key]
        /\ Loads(c.results[c.result_key]).content = <<>>
        /\ paginated_result(Loads(c.results[c.log_key]).content, 2, 1, TRUE, FALSE).content
                # <<>>

(* C16: an execute that finds the size unchanged returns every entry it was
   handed, unchanged, the CachedLogFile under log_key among them, and adds at
   most result_key; the entry under log_key of a returned mapping differs from
   the one handed in only when the execute found the log stale. *)
C16_NonStaleKeepsEntries ==
    \A p \in Procs :
        LET c == calls[p]
        IN  c.pc = "returned" =>
                /\ ~c.log_size_changed =>
                    /\ \A key \in DOMAIN c.existing_keys :
                            key \in DOMAIN c.results /\ c.results[key] = c.existing_keys[key]
                    /\ c.log_key \in DOMAIN c.existing_keys
                    /\ DOMAIN c.results \ DOMAIN c.existing_keys \subseteq {c.result_key}
                /\ (c.log_key \notin DOMAIN c.existing_keys
                        \/ c.results[c.log_key] # c.existing_keys[c.log_key])
                    => c.log_size_changed

(* a non-stale execute, handed the whole store with pages of other views,
   returns them all and adds its own page *)
C16_Witness ==
    LET c == calls[1]
    IN  /\ c.pc = "returned" /\ ~c.log_size_changed
        /\ Cardinality(DOMAIN c.existing_keys) >= 3
        /\ c.result_key \notin DOMAIN c.existing_keys
        /\ DOMAIN c.results = DOMAIN c.existing_keys \cup {c.result_key}

(* ------------------------------------------------------------------ *)
(* Properties of the pages taken together (SpecPage)                  *)
(* ------------------------------------------------------------------ *)

(* the contents of the pages 1..n of a non-raw, forward view, one after the
   other *)
RECURSIVE PagesInOrder(_, _, _)
PagesInOrder(content, limit, n) ==
    IF n = 0 THEN <<>>
    ELSE PagesInOrder(content, limit, n - 1)
            \o paginated_result(content, n, limit, FALSE, FALSE).content

AllRows(content) ==
    [i \in 1..Len(content) |->
        [row |-> i - 1, timestamp |-> content[i][1], line |-> content[i][2]]]

(* C17: for a non-raw view with limit > 0 and reverse = false, the pages
   1..pages partition the log: one after the other they are all N records in
   order, every record on exactly one page. *)
C17_PagesPartitionTheLog ==
    Paged /\ pin.limit > 0 /\ ~pin.reverse_order =>
        PagesInOrder(pin.content, pin.limit, pout[1].pages) = AllRows(pin.content)

(* three records paged by two: one page is reported, it holds rows 0 and 1,
   and row 2 is on no page *)
C17_Witness ==
    /\ Paged /\ pin.limit = 2 /\ ~pin.reverse_order /\ pin.page = 1
    /\ Len(pin.content) = 3
    /\ pout[1].pages = 1
    /\ Len(pout[1].content) = 2
    /\ paginated_result(pin.content, 2, 2, FALSE, FALSE).content = <<>>

(* ------------------------------------------------------------------ *)
(* Properties of concurrent calls (SpecConc)                          *)
(* ------------------------------------------------------------------ *)

LogFileKeys(d) == {key \in DOMAIN d : StartsWith(key, "log:file")}

CurrentSize == get_log_size(TaskHandle(log, <<>>), STDOUT)
CurrentContent == get_log_content(TaskHandle(log, <<>>), STDOUT)

IsPrefix(s, t) == Len(s) <= Len(t) /\ SubSeq(t, 1, Len(s)) = s

(* C18: with an append-only log, calls that overlap, growth at any moment
   (between the size read and the content read of a call too) and puts that
   overwrite each other: the content of every stored CachedLogFile was fetched
   no earlier than its log_size was read (it is a state of the log at least
   that long), so a stored log_size equal to the current size comes with the
   current content; and a call that finds the size unchanged reuses content
   that is the log as it was when the call read the size. *)
C18_ContentNoOlderThanItsSize ==
    /\ \A key \in LogFileKeys(store) :
        LET e == Loads(store[key])
        IN  /\ IsPrefix(e.content, CurrentContent)
            /\ ByteSize(e.content) >= e.log_size
            /\ e.log_size = CurrentSize => e.content = CurrentContent
    /\ \A p \in Procs :
        LET c == calls[p]
        IN  c.pc = "returned" /\ ~c.log_size_changed =>
                LET reused == Loads(c.results[c.log_key]).content
                IN  /\ ByteSize(reused) = c.current_size
                    /\ IsPrefix(reused, CurrentContent)

(* the log grew between a call's size read and its content read, the entry it
   put pairs the size of one line with the content of two, and the other
   worker, handed that entry, has read the size and found the log stale *)
C18_Witness ==
    /\ \E key \in LogFileKeys(store) :
        /\ Len(Loads(store[key]).content) = 2
        /\ Loads(store[key]).log_size < ByteSize(Loads(store[key]).content)
        /\ key \in DOMAIN calls[2].existing_keys
        /\ calls[2].existing_keys[key] = store[key]
    /\ calls[2].pc = "sized" /\ calls[2].log_size_changed
    /\ calls[1].pc = "returned" /\ ~calls[1].log_size_changed

(* ------------------------------------------------------------------ *)
(* Properties of invalidate_cache (Spec)                              *)
(* ------------------------------------------------------------------ *)

(* the same call with the other value of the flag *)
OtherFlag(c) == [c EXCEPT !.invalidate_cache = ~@]

(* what the metadata client may answer when asked for the content now *)
ContentAnswers == {Raise("TaskUnavailable", "content"), Ok(CurrentContent)}

(* C19: invalidate_cache never influences execute. A call that has read the
   size goes on, whatever the metadata client answers, exactly as the call
   with the other value of the flag does: same fetches, same returned mapping,
   same error; a call with the flag set whose cached size equals the current
   size fetches no content and returns the cached log file. format_request
   hands the flag back as given, and builds the same message, without the
   flag, and the same keys for either value. *)
C19_FlagNeverConsulted ==
    \A p \in Procs :
        LET c == calls[p]
        IN  /\ c.pc = "sized" =>
                \A content \in ContentAnswers :
                    execute_finish(OtherFlag(c), content)
                        = OtherFlag(execute_finish(c, content))
            /\ c.pc = "returned" /\ c.invalidate_cache
                    /\ c.previous_log_size = c.current_size =>
                /\ ~c.log_size_changed
                /\ c.fetched = <<>> /\ c.client = <<"Task", "size">>
                /\ c.results[c.log_key] = c.existing_keys[c.log_key]
            /\ c.pc = "dispatched" /\ c.via = "format_request" =>
                LET m == c.message
                    f(flag) == format_request(m.task, m.logtype, m.limit, m.page,
                                              m.reverse_order, m.raw_log, flag).val
                IN  /\ \A flag \in BOOLEAN : f(flag).invalidate_cache = flag
                    /\ f(TRUE).msg = m /\ f(FALSE).msg = m
                    /\ "invalidate_cache" \notin DOMAIN m
                    /\ f(TRUE).keys = f(FALSE).keys
                    /\ f(TRUE).stream_key = f(FALSE).stream_key
                    /\ f(TRUE).await = f(FALSE).await
                    /\ c.existing_keys = CacheGet(f(c.invalidate_cache).keys)

(* a request with invalidate_cache set has returned the cached entries without
   fetching, the cached size being the current one *)
C19_Witness ==
    LET c == calls[1]
    IN  /\ c.pc = "returned" /\ c.via = "format_request" /\ c.invalidate_cache
        /\ c.previous_log_size = c.current_size
        /\ c.fetched = <<>>
        /\ c.results = c.existing_keys
        /\ Len(log) = 2

(* ------------------------------------------------------------------ *)
(* Properties of the start-up script (SpecBoot)                       *)
(* ------------------------------------------------------------------ *)

LoopLeft == boot.pc \in {"close", "get", "done", "crashed", "aborted"}
Budget == Max(boot.max_startup_retries, 0)

BootCounts ==
    /\ boot.attempts <= Budget
    /\ boot.max_startup_retries <= 0 => boot.attempts = 0
    /\ boot.decrements = (IF boot.pc = "sleep" THEN boot.attempts - 1 ELSE boot.attempts)
    /\ boot.retry_count = boot.max_startup_retries - boot.decrements
    /\ boot.connected =>
        /\ boot.pc \in {"close", "get", "done", "crashed"}
        /\ boot.sleeps = boot.attempts - 1
    /\ ~boot.connected => boot.sleeps <= boot.attempts
    /\ boot.pc = "close" => boot.connected \/ boot.attempts = Budget
    /\ boot.pc = "aborted" =>
        ~boot.connected /\ boot.startup_retry_wait_time_seconds < 0
    /\ boot.gets = (IF boot.pc \in {"done", "crashed"} THEN 1 ELSE 0)

(* C20: the polling loop is always left; it makes at most max_startup_retries
   connection attempts, none with a budget of 0 or less; retry_count is
   decremented once per attempt, successful or failed; the first successful
   connection ends the loop with no sleep after it; and once the loop is left by
   a success or by the exhausted budget, the GET of /version is attempted,
   exactly once. *)
C20_LoopEndsThenOneGet ==
    /\ []BootCounts
    /\ <>LoopLeft
    /\ [](boot.pc = "close" => <>(boot.gets = 1))
    /\ [][boot'.gets # boot.gets => boot.gets = 0 /\ boot'.gets = 1 /\ boot.closed]_vars

(* the third attempt connected, after two failed ones and two sleeps, and the
   GET has been made *)
C20_Witness ==
    /\ boot.pc = "done" /\ boot.connected
    /\ boot.max_startup_retries = MaxRetries
    /\ boot.attempts = 3 /\ boot.sleeps = 2 /\ boot.decrements = 3
    /\ boot.retry_count = MaxRetries - 3
    /\ boot.gets = 1

====
